---- MODULE Spec2Model ----
(***************************************************************************)
(* Model of wooster0/splitter: split.rs (split_parts, get_buffers, split), *)
(* join.rs (get_trailing_number, split_file_name, join) and main.rs        *)
(* (get_file_name, get_paths, handle_arg, run).                            *)
(*                                                                         *)
(* A file name is a sequence of '-'-separated segments, a path is a record *)
(* [abs, comps] of components, the file system is a set of directories and *)
(* a function from resolved paths to byte sequences.                       *)
(***************************************************************************)
EXTENDS Integers, Sequences, FiniteSets, TLC

VARIABLES
    pc,            \* position of the running operation
    result,        \* Ok/Err message of the last finished operation
    runs,          \* number of invocations of the program so far
    initial_part,  \* split_parts: argument initial_part (file_len)
    split_size,    \* split_parts: argument split_size
    parts,         \* split_parts: the vector parts
    index,         \* split_parts: loop variable of the for loop
    n,             \* split_parts: parts.len() taken when the for loop starts
    fs_dirs,       \* file system: the existing directories
    fs_files,      \* file system: resolved path -> contents
    source,        \* the file given to split (its path as typed)
    path_buf,      \* split: path_buf after set_file_name
    buffers,       \* split: the buffers after read_vectored
    nread,         \* split: the byte count read_vectored returned
    wi,            \* split: index of the chunk-writing loop
    path_bufs,     \* join: the argument
    last_split     \* the plan and the chunk directory of the last successful split

planVars == <<initial_part, split_size, parts, index, n>>
fsVars == <<fs_dirs, fs_files>>
splitVars == <<source, path_buf, buffers, nread, wi>>
vars == <<pc, result, runs, initial_part, split_size, parts, index, n,
          fs_dirs, fs_files, source, path_buf, buffers, nread, wi,
          path_bufs, last_split>>

\* ---- bounds ----
MaxTotal == 12
MaxLimit == 4
MaxLen == 5
MaxSplitSize == 3
MaxPick == 3
\* the elements the vector parts can hold before its allocation fails: never
\* reached by a call that returns
MaxParts == MaxTotal + 2

\* ---- helpers ----
RECURSIVE Sum(_)
Sum(s) == IF s = <<>> THEN 0 ELSE Head(s) + Sum(Tail(s))

Front(s) == SubSeq(s, 1, Len(s) - 1)
Last(s) == s[Len(s)]

AllBelowOrEqual(s, limit) == \A i \in 1..Len(s) : s[i] <= limit

\* parts.iter().all(|part| *part < split_size)
AllBelow(s, limit) == \A i \in 1..Len(s) : s[i] < limit

\* ---- split_parts, one step per loop iteration ----

\* let mut parts = vec![initial_part];
PlanStart(total, limit) ==
    /\ initial_part' = total
    /\ split_size' = limit
    /\ parts' = <<total>>
    /\ index' = 0
    /\ n' = 0

\* while !parts.iter().all(..) { for index in 0..parts.len() {
SnapshotLen(s) == Len(s)

WhileEnter ==
    /\ pc = "while"
    /\ ~AllBelow(parts, split_size)
    /\ pc' = "for"
    /\ index' = 0
    /\ n' = SnapshotLen(parts)
    /\ UNCHANGED <<initial_part, split_size, parts>>

\* the while condition is false: debug_assert_eq!, parts is returned
WhileExit ==
    /\ pc = "while"
    /\ AllBelow(parts, split_size)
    /\ pc' = "planned"
    /\ UNCHANGED planVars

HalveDropRemainder(s, i) ==
    LET part == s[i]
        half == part \div 2
    IN Append([s EXCEPT ![i] = half], half)

HalveSwapped(s, i) ==
    LET part == s[i]
        half == part \div 2
    IN Append([s EXCEPT ![i] = half + (part % 2)], half)

\* the body of the for loop for one index
Halve(s, i) ==
    LET part == s[i]
        half == part \div 2
    IN Append([s EXCEPT ![i] = half], half + (part % 2))

ForBody ==
    /\ pc = "for"
    /\ index < n
    /\ LET part == parts[index + 1]
       IN IF part >= split_size
          THEN /\ Len(parts) < MaxParts
               /\ parts' = Halve(parts, index + 1)
          ELSE parts' = parts
    /\ index' = index + 1
    /\ UNCHANGED <<pc, initial_part, split_size, n>>

\* parts.push when the vector cannot grow any more: the allocation fails and
\* the process aborts
ForAbort ==
    /\ pc = "for"
    /\ index < n
    /\ parts[index + 1] >= split_size
    /\ Len(parts) >= MaxParts
    /\ pc' = "abort"
    /\ UNCHANGED planVars

ForEnd ==
    /\ pc = "for"
    /\ index = n
    /\ pc' = "while"
    /\ UNCHANGED planVars

\* ---- specification of split_parts alone ----
ExampleInputs == {<<10, 3>>, <<0, 1>>, <<5, 100>>}
PlanInputs == ((0..MaxTotal) \X (1..MaxLimit)) \cup ExampleInputs

NoPath == [abs |-> FALSE, comps |-> <<>>]

PlanInit ==
    /\ pc = "while"
    /\ result = "none"
    /\ runs = 0
    /\ \E inp \in PlanInputs :
          /\ initial_part = inp[1]
          /\ split_size = inp[2]
          /\ parts = <<inp[1]>>
    /\ index = 0
    /\ n = 0
    /\ fs_dirs = {}
    /\ fs_files = <<>>
    /\ source = NoPath
    /\ path_buf = NoPath
    /\ buffers = <<>>
    /\ nread = 0
    /\ wi = 0
    /\ path_bufs = <<>>
    /\ last_split = <<>>

PlanNext ==
    \/ WhileEnter /\ UNCHANGED <<result, runs, fsVars, splitVars, path_bufs, last_split>>
    \/ WhileExit /\ UNCHANGED <<result, runs, fsVars, splitVars, path_bufs, last_split>>
    \/ ForBody /\ UNCHANGED <<result, runs, fsVars, splitVars, path_bufs, last_split>>
    \/ ForAbort /\ UNCHANGED <<result, runs, fsVars, splitVars, path_bufs, last_split>>
    \/ ForEnd /\ UNCHANGED <<result, runs, fsVars, splitVars, path_bufs, last_split>>

PlanSpec == PlanInit /\ [][PlanNext]_vars

\* the loop is sequential code: a step that can be taken is taken
FairPlanSpec == PlanSpec /\ WF_vars(PlanNext)

\* ---- strings ----
\* a file name is the sequence of its '-'-separated segments: "my-f-split-1"
\* is <<"my", "f", "split", "1">>

\* format!("{}", i) for the indices that occur
DecStr == <<"1", "2", "3", "4", "5", "6", "7", "8", "9", "10",
            "11", "12", "13", "14", "15", "16", "17", "18", "19", "20">>
FormatIndex(i) == DecStr[i]

\* str::parse::<usize>: the value, or -1 for a ParseIntError
ParseUsize(seg) ==
    IF seg = "0" THEN 0
    ELSE IF seg = "01" THEN 1
    ELSE IF \E i \in 1..Len(DecStr) : DecStr[i] = seg
         THEN CHOOSE i \in 1..Len(DecStr) : DecStr[i] = seg
         ELSE -1

\* ---- paths ----
Cwd == << <<"w">> >>
DirD == <<"d">>
DirOld == <<"old">>

Resolve(p) == IF p.abs THEN p.comps ELSE Cwd \o p.comps

\* PathBuf::push
Push(p, q) == IF q.abs THEN q ELSE [abs |-> p.abs, comps |-> p.comps \o q.comps]

\* PathBuf::set_file_name: pop the file name, then push
set_file_name(p, q) == Push([p EXCEPT !.comps = Front(@)], q)

\* into_os_string() followed by push("-split")
PushSplitSuffix(p) ==
    [p EXCEPT !.comps = Front(@) \o <<Append(Last(@), "split")>>]

\* main.rs get_file_name
get_file_name(p) == Last(p.comps)

\* split.rs: the directory split creates
SplitDirPath(p) == set_file_name(p, PushSplitSuffix(p))

ChunkFileNameOfSource(dir, idx) ==
    Append(Front(get_file_name(dir)), FormatIndex(idx + 1))

\* split.rs: format!("{}-{}", path_os_string, index + 1), index 0-based
ChunkFileName(dir, idx) == Append(get_file_name(dir), FormatIndex(idx + 1))

\* join.rs get_trailing_number over the whole path string: the value, -1 for
\* "invalid trailing number", -2 for "no trailing number found"
get_trailing_number(p) ==
    LET name == Last(p.comps)
    IN IF Len(name) >= 2 THEN ParseUsize(Last(name))
       ELSE IF \E i \in 1..Len(p.comps) : Len(p.comps[i]) >= 2 THEN -1
       ELSE -2

\* join.rs split_file_name: rsplitn(3, '-'), <<>> wrapped as None
split_file_name(name) ==
    IF Len(name) >= 3 THEN <<SubSeq(name, 1, Len(name) - 2)>> ELSE <<>>

\* ---- file system ----
IsFile(r) == r \in DOMAIN fs_files
IsDir(r) == r \in fs_dirs
Exists(r) == IsFile(r) \/ IsDir(r)
Entries(d) == {r \in (DOMAIN fs_files) \cup fs_dirs : r # <<>> /\ Front(r) = d}

\* fs::create_dir and OpenOptions::create_new succeed on a new name in an
\* existing directory
CanCreate(r) == ~Exists(r) /\ IsDir(Front(r))

RECURSIVE Concat(_)
Concat(ss) == IF ss = <<>> THEN <<>> ELSE Head(ss) \o Concat(Tail(ss))

\* ---- split.rs: split ----
SrcNames == {<<"f">>, <<"my", "f">>}
SourceBytes(len) == [i \in 1..len |-> i]

SplitArgs ==
    {p \in [abs : BOOLEAN,
            comps : {c \o <<b>> : c \in {<<>>, <<DirD>>, Cwd, Cwd \o <<DirD>>},
                                  b \in SrcNames}] :
        IsFile(Resolve(p))}

\* handle_arg/run reach split with a regular file; split opens it, reads its
\* length and the split size, rejects file_len < split_size, else enters
\* get_buffers/split_parts
SplitBegin ==
    /\ pc = "idle"
    /\ runs = 0
    /\ \E p \in SplitArgs, size \in 1..MaxSplitSize :
          LET file_len == Len(fs_files[Resolve(p)])
          IN /\ source' = p
             /\ PlanStart(file_len, size)
             /\ IF file_len < size
                THEN /\ pc' = "idle"
                     /\ result' = "Err: File length is below split length"
                ELSE /\ pc' = "while"
                     /\ result' = "none"
    /\ runs' = runs + 1
    /\ path_bufs' = <<>>
    /\ UNCHANGED <<fsVars, path_buf, buffers, nread, wi, last_split>>

\* the buffers of get_buffers after read_vectored returned Ok(k): the first k
\* bytes of the file, in plan order, the rest still zero
FilledBuffers(plan, bytes, k) ==
    [i \in 1..Len(plan) |->
        [j \in 1..plan[i] |->
            LET off == Sum(SubSeq(plan, 1, i - 1)) + j
            IN IF off <= k THEN bytes[off] ELSE 0]]

\* read_vectored fails
SplitReadErr ==
    /\ pc = "planned"
    /\ pc' = "idle"
    /\ result' = "Err: Failed reading file."
    /\ UNCHANGED <<runs, planVars, fsVars, splitVars, path_bufs, last_split>>

\* read_vectored returns Ok(k) with 1 <= k <= file_len (a read may fill less
\* than asked), k is not looked at; path_buf becomes the chunk directory
SplitRead ==
    /\ pc = "planned"
    /\ \E k \in 1..initial_part :
          /\ nread' = k
          /\ buffers' = FilledBuffers(parts, fs_files[Resolve(source)], k)
    /\ path_buf' = SplitDirPath(source)
    /\ pc' = "mkdir"
    /\ UNCHANGED <<result, runs, planVars, fsVars, source, wi, path_bufs, last_split>>

SplitCreateDir ==
    /\ pc = "mkdir"
    /\ IF CanCreate(Resolve(path_buf))
       THEN /\ fs_dirs' = fs_dirs \cup {Resolve(path_buf)}
            /\ pc' = "write"
            /\ wi' = 0
            /\ UNCHANGED result
       ELSE /\ pc' = "idle"
            /\ result' = "Err: Folder already exists"
            /\ UNCHANGED <<fs_dirs, wi>>
    /\ UNCHANGED <<runs, planVars, fs_files, source, path_buf, buffers, nread,
                   path_bufs, last_split>>

\* one iteration of the writing loop
SplitWrite ==
    /\ pc = "write"
    /\ wi < Len(buffers)
    /\ LET file == Resolve(path_buf) \o <<ChunkFileName(path_buf, wi)>>
       IN fs_files' = fs_files @@ (file :> buffers[wi + 1])
    /\ wi' = wi + 1
    /\ UNCHANGED <<pc, result, runs, planVars, fs_dirs, source, path_buf, buffers,
                   nread, path_bufs, last_split>>

SplitDone ==
    /\ pc = "write"
    /\ wi = Len(buffers)
    /\ pc' = "idle"
    /\ result' = "Ok: Successful split"
    /\ last_split' = <<[dir |-> Resolve(path_buf), plan |-> parts,
                        bytes |-> fs_files[Resolve(source)]]>>
    /\ UNCHANGED <<runs, planVars, fsVars, splitVars, path_bufs>>

\* ---- join.rs: join ----
\* files.sort_unstable_by(trailing_number): insertion sort
RECURSIVE InsertByNumber(_, _)
InsertByNumber(p, sorted) ==
    IF sorted = <<>> THEN <<p>>
    ELSE IF get_trailing_number(p) < get_trailing_number(Head(sorted))
         THEN <<p>> \o sorted
         ELSE <<Head(sorted)>> \o InsertByNumber(p, Tail(sorted))

Unsorted(ps) == ps

RECURSIVE SortByNumber(_)
SortByNumber(ps) ==
    IF ps = <<>> THEN <<>> ELSE InsertByNumber(Head(ps), SortByNumber(Tail(ps)))

\* for (index, file) in files.iter().enumerate(): index + 1 != trailing_number
NumberMismatch(files) ==
    \E i \in 1..Len(files) : i # get_trailing_number(files[i])

\* "joined-" + file_name, created in the current directory
OutputPath(base) == Cwd \o << <<"joined">> \o base >>

\* the whole of join: the message it returns
JoinResult(ps) ==
    LET first == ps[1]
        base == split_file_name(get_file_name(first))
        files == SortByNumber(ps)
    IN IF ~IsFile(Resolve(first)) THEN "Err: is not a file"
       ELSE IF base = <<>> THEN "Err: Invalid filename"
       ELSE IF \E i \in 1..Len(ps) : ~Exists(Resolve(ps[i])) THEN "Err: File not found."
       ELSE IF \E i \in 1..Len(ps) : get_trailing_number(ps[i]) < 0
            THEN "Err: trailing number"
       ELSE IF NumberMismatch(files) THEN "Err: Trailing number mismatch"
       ELSE IF ~CanCreate(OutputPath(base[1]))
            THEN "Err: Failed to create output file, already exists"
       ELSE IF \E i \in 1..Len(ps) : ~IsFile(Resolve(ps[i])) THEN "Err: Unknown error."
       ELSE "Ok: Successful join"

\* the file system join leaves behind
JoinFiles(ps) ==
    LET base == split_file_name(get_file_name(ps[1]))
        files == SortByNumber(ps)
        res == JoinResult(ps)
    IN IF res = "Ok: Successful join"
       THEN fs_files @@ (OutputPath(base[1]) :>
                Concat([i \in 1..Len(files) |-> fs_files[Resolve(files[i])]]))
       ELSE IF res = "Err: Unknown error."
            THEN fs_files @@ (OutputPath(base[1]) :> <<>>)
            ELSE fs_files

RECURSIVE Orders(_)
Orders(S) ==
    IF S = {} THEN {<<>>}
    ELSE UNION {{<<x>> \o o : o \in Orders(S \ {x})} : x \in S}

AbsPath(r) == [abs |-> TRUE, comps |-> r]

\* the directories whose files are joined: any directory holding only files
\* when join is the first operation, the chunk directory after a split
JoinDirs ==
    IF runs = 0
    THEN {e \in fs_dirs : Entries(e) # {} /\ Entries(e) \subseteq DOMAIN fs_files}
    ELSE {last_split[i].dir : i \in 1..Len(last_split)}

\* handle_arg with a directory: all its entries, in the order read_dir gives;
\* the file dialog: two or more (here at most MaxPick) picked files
JoinInputs ==
    UNION {UNION {Orders(sel) : sel \in {s \in SUBSET Entries(d) :
                                  /\ s # {}
                                  /\ \/ s = Entries(d)
                                     \/ Cardinality(s) \in 2..MaxPick}} :
           d \in JoinDirs}

Join ==
    /\ pc = "idle"
    /\ path_bufs = <<>>
    /\ \E order \in JoinInputs :
          LET ps == [i \in 1..Len(order) |-> AbsPath(order[i])]
          IN /\ path_bufs' = ps
             /\ result' = JoinResult(ps)
             /\ fs_files' = JoinFiles(ps)
    /\ runs' = runs + 1
    /\ UNCHANGED <<pc, planVars, fs_dirs, splitVars, last_split>>

\* ---- the program ----
StrayFiles ==
    LET old == Cwd \o <<DirOld>>
    IN (old \o << <<"f", "split", "1">> >> :> <<201>>) @@
       (old \o << <<"f", "split", "01">> >> :> <<202>>) @@
       (old \o << <<"f", "split", "2">> >> :> <<203>>) @@
       (old \o << <<"f", "split", "4">> >> :> <<204>>)

Init ==
    /\ pc = "idle"
    /\ result = "none"
    /\ runs = 0
    /\ initial_part = 0
    /\ split_size = 1
    /\ parts = <<0>>
    /\ index = 0
    /\ n = 0
    /\ \E len \in 1..MaxLen, b \in SrcNames,
          inSub \in BOOLEAN, nested \in BOOLEAN,
          preSplit \in BOOLEAN, preJoined \in BOOLEAN :
          LET srcDir == IF inSub THEN Cwd \o <<DirD>> ELSE Cwd
              oldSplit == srcDir \o <<Append(b, "split")>>
          IN /\ nested => inSub
             /\ fs_dirs = {<<>>, Cwd, Cwd \o <<DirD>>, Cwd \o <<DirOld>>}
                          \cup (IF nested THEN {Cwd \o <<DirD, DirD>>} ELSE {})
                          \cup (IF preSplit THEN {oldSplit} ELSE {})
             /\ fs_files =
                   (srcDir \o <<b>> :> SourceBytes(len)) @@ StrayFiles @@
                   (IF preSplit
                    THEN (oldSplit \o <<b \o <<"split", "1">> >> :> <<101>>)
                    ELSE <<>>) @@
                   (IF preJoined THEN (OutputPath(b) :> <<102>>) ELSE <<>>)
    /\ source = NoPath
    /\ path_buf = NoPath
    /\ buffers = <<>>
    /\ nread = 0
    /\ wi = 0
    /\ path_bufs = <<>>
    /\ last_split = <<>>

Next ==
    \/ SplitBegin
    \/ WhileEnter /\ UNCHANGED <<result, runs, fsVars, splitVars, path_bufs, last_split>>
    \/ WhileExit /\ UNCHANGED <<result, runs, fsVars, splitVars, path_bufs, last_split>>
    \/ ForBody /\ UNCHANGED <<result, runs, fsVars, splitVars, path_bufs, last_split>>
    \/ ForAbort /\ UNCHANGED <<result, runs, fsVars, splitVars, path_bufs, last_split>>
    \/ ForEnd /\ UNCHANGED <<result, runs, fsVars, splitVars, path_bufs, last_split>>
    \/ SplitReadErr
    \/ SplitRead
    \/ SplitCreateDir
    \/ SplitWrite
    \/ SplitDone
    \/ Join

Spec == Init /\ [][Next]_vars

\* ---- C2 ----
\* C2: the sum of parts equals initial_part after the initialisation, after
\* every halving step and after every pass, hence in the returned vector.
C2_SumConserved == Sum(parts) = initial_part

C2_Witness ==
    /\ pc = "planned"
    /\ Len(parts) >= 4
    /\ \E i \in 1..Len(parts) : parts[i] # parts[1]

\* ---- C3 ----
\* C3: for every total >= 0 and limit >= 1 the pass loop eventually reaches
\* a state where every element is < limit, and split_parts returns.  (With
\* limit 1 and total >= 1 parts grows in every pass and the call ends in the
\* abort of the failed allocation instead.)
C3_Terminates == <>(pc = "planned" /\ AllBelow(parts, split_size))

\* ---- C4 ----
\* one pass written as a whole: the elements present at its start are halved
\* in place where >= limit, the upper halves follow in the order of visit
RECURSIVE UpperHalves(_, _)
UpperHalves(s, limit) ==
    IF s = <<>> THEN <<>>
    ELSE (IF Head(s) >= limit THEN <<Head(s) - (Head(s) \div 2)>> ELSE <<>>)
         \o UpperHalves(Tail(s), limit)

SnapshotPass(s, limit) ==
    [i \in 1..Len(s) |-> IF s[i] >= limit THEN s[i] \div 2 ELSE s[i]]
    \o UpperHalves(s, limit)

RECURSIVE SnapshotPlan(_, _, _)
SnapshotPlan(s, limit, fuel) ==
    IF (\A i \in 1..Len(s) : s[i] < limit) \/ fuel = 0 THEN s
    ELSE SnapshotPlan(SnapshotPass(s, limit), limit, fuel - 1)

\* C4: split_parts returns the sequence of the snapshot-pass halving
\* algorithm in its order; split_parts(10, 3) = [2, 2, 1, 1, 2, 2],
\* split_parts(0, 1) = [0] and split_parts(5, 100) = [5].
C4_SnapshotOrder ==
    pc = "planned" =>
       /\ parts = SnapshotPlan(<<initial_part>>, split_size, MaxParts)
       /\ (initial_part = 10 /\ split_size = 3 => parts = <<2, 2, 1, 1, 2, 2>>)
       /\ (initial_part = 0 /\ split_size = 1 => parts = <<0>>)
       /\ (initial_part = 5 /\ split_size = 100 => parts = <<5>>)

C4_Witness ==
    /\ pc = "planned"
    /\ initial_part = 10
    /\ split_size = 3
    /\ parts = <<2, 2, 1, 1, 2, 2>>

\* ---- C10 ----
\* C10: for total >= limit >= 2 every element of the returned sequence lies
\* in floor(limit/2) .. limit-1, no chunk is empty, and there are >= 2 chunks.
C10_ChunkSizeBound ==
    (pc = "planned" /\ initial_part >= split_size /\ split_size >= 2) =>
       /\ \A i \in 1..Len(parts) :
             /\ parts[i] >= split_size \div 2
             /\ parts[i] <= split_size - 1
             /\ parts[i] >= 1
       /\ Len(parts) >= 2

C10_Witness ==
    /\ pc = "planned"
    /\ initial_part = 7
    /\ split_size = 4
    /\ \E i \in 1..Len(parts) : parts[i] = split_size \div 2
    /\ \E i \in 1..Len(parts) : parts[i] = split_size - 1

\* ---- C1 ----
JoinedChunkSet ==
    /\ last_split # <<>>
    /\ path_bufs # <<>>
    /\ {Resolve(path_bufs[i]) : i \in 1..Len(path_bufs)} = Entries(last_split[1].dir)

\* C1: for L >= K >= 1, split followed by join of the resulting chunk set, in
\* any order of the paths, produces a joined file byte-identical to the
\* original (the joined file not being there beforehand).
C1_RoundTrip ==
    (JoinedChunkSet /\ result # "Err: Failed to create output file, already exists") =>
       /\ result = "Ok: Successful join"
       /\ IsFile(OutputPath(get_file_name(source)))
       /\ fs_files[OutputPath(get_file_name(source))] = last_split[1].bytes

\* ---- C5 ----
SplitSucceeded == pc = "idle" /\ result = "Ok: Successful split"

SiblingSplitDir == Front(Resolve(source)) \o <<get_file_name(source) \o <<"split">> >>

\* the output file of a join of ps, <<>> when the first name does not decode
JoinTarget(ps) ==
    IF Len(get_file_name(ps[1])) >= 3
    THEN {Cwd \o << <<"joined">> \o SubSeq(get_file_name(ps[1]), 1, Len(get_file_name(ps[1])) - 2) >>}
    ELSE {}

\* C6: when the target exists already (the directory <name>-split for split,
\* the file joined-<baseName> for join) the operation fails with an error
\* and writes nothing: the file system stays as it was.
C6_NoOverwrite ==
    [][/\ (pc = "mkdir" /\ IsDir(SiblingSplitDir)) =>
             /\ pc' = "idle"
             /\ result' = "Err: Folder already exists"
             /\ UNCHANGED fsVars
       /\ (pc \in {"while", "for", "planned"}) => UNCHANGED fsVars
       /\ (path_bufs = <<>> /\ path_bufs' # <<>>
              /\ \E t \in JoinTarget(path_bufs') : IsFile(t)) =>
             /\ result' \notin {"none", "Ok: Successful join", "Ok: Successful split"}
             /\ UNCHANGED fsVars]_vars

\* ---- C7 ----
Decodable(p) ==
    /\ IsFile(Resolve(p))
    /\ get_trailing_number(p) >= 0
    /\ Len(get_file_name(p)) >= 3

\* the decoded indices are exactly 1..N, each once
Contiguous(ps) ==
    \A k \in 1..Len(ps) :
       Cardinality({i \in 1..Len(ps) : get_trailing_number(ps[i]) = k}) = 1

IndexBag(ps, a, b, c) ==
    /\ Len(ps) = 3
    /\ \E i, j, k \in 1..3 :
          /\ {i, j, k} = {1, 2, 3}
          /\ get_trailing_number(ps[i]) = a
          /\ get_trailing_number(ps[j]) = b
          /\ get_trailing_number(ps[k]) = c

\* C7: for N decodable chunk paths join passes its contiguity validation
\* iff the multiset of trailing indices is exactly {1..N}; otherwise it
\* fails with the trailing-number-mismatch error and the file system is
\* left as it was; {1,2,4} and {1,1,2} are rejected with that error.
C7_Contiguity ==
    [][(path_bufs = <<>> /\ path_bufs' # <<>>
           /\ \A i \in 1..Len(path_bufs') : Decodable(path_bufs'[i])) =>
          /\ (result' = "Err: Trailing number mismatch") <=> ~Contiguous(path_bufs')
          /\ result' \in {"Err: Trailing number mismatch", "Ok: Successful join",
                          "Err: Failed to create output file, already exists"}
          /\ (result' = "Err: Trailing number mismatch") => UNCHANGED fsVars
          /\ (IndexBag(path_bufs', 1, 2, 4) \/ IndexBag(path_bufs', 1, 1, 2)) =>
                result' = "Err: Trailing number mismatch"]_vars

C7_Witness ==
    /\ IndexBag(path_bufs, 1, 1, 2)
    /\ get_trailing_number(path_bufs[1]) = 2
    /\ result = "Err: Trailing number mismatch"

\* ---- C8 ----
\* C8: for an absolute path, a bare file name or a relative path with
\* directory components, the chunk directory split creates is named
\* <file name>-split and lies in the parent directory of the source file.
C8_SiblingDir ==
    pc = "write" => Resolve(path_buf) = SiblingSplitDir

\* ---- C9 ----
\* C9: when the scattered read fills fewer bytes than the plan sums to,
\* split fails and creates neither the chunk directory nor a chunk file:
\* chunk files are only written from completely filled buffers.
C9_ShortReadFails ==
    (pc \in {"mkdir", "write"} \/ SplitSucceeded) => nread = initial_part
====
